---- MODULE Spec2Model ----
(***************************************************************************)
(* The user repository of money_managment (internal/domain/user/repo.go)   *)
(* over the "users" relation of the migration, reached through the pool    *)
(* abstraction storage.DBPool.  The store is the table with its            *)
(* constraints (serial primary key, unique username, unique email); every  *)
(* repository call issues its one statement against it and maps the pool's *)
(* outcome to a result/error pair.                                         *)
(*                                                                         *)
(* Spec         the six operations, called one after another               *)
(* SpecList     List and Count read against any table of up to MaxRows rows *)
(* SpecNilUser  Spec and the calls that pass a nil *User                   *)
(* SpecRace     Creates with one email called by several callers at once   *)
(* SpecMain     the entry point (cmd main) up to and after storage.Connect *)
(***************************************************************************)
EXTENDS Integers, FiniteSets, Sequences, TLC

\* ------------------------------------------------------------------ bounds
\* Highest value users_id_seq hands out in a run (the live sequence is int4).
MaxSeq == 2
\* Highest timestamp the store assigns in a run.
MaxClock == 2
\* Most rows of a table List and Count are read against.
MaxRows == 3
\* Callers that call Create at the same time.
NProcs == 2

\* ------------------------------------------------------------- input sets
Usernames == {"dima", "anna"}
Emails == {"dima@example.com", "anna@example.com"}
PassHashes == {"hash", "hash2"}
\* Identifiers a caller may ask for: every value the sequence can hand out
\* (one not handed out yet, or deleted since, is held by no user).
Ids == 1..MaxSeq
\* CreateAt and UpdateAt as a caller holds them in the *User it passes to
\* Update: the copy it read from the store earlier.
CallerTimes == {1}

\* What the pool does with the one statement of a call:
\*   "none"  the statement runs and its rows decode;
\*   "conn"  the statement cannot be run (transport failure), the store is
\*           not reached;
\*   "iter"  the cursor ends with an iteration error before any row;
\*   "scan"  the statement runs, a returned row fails to decode (the id
\*           Create reads back is the serial key and always decodes).
Faults == {"none", "conn", "iter", "scan"}

\* limit and offset as a caller passes them to List: any int, a negative
\* one included.
Limits == -1..3
Offsets == -1..3
\* Rows of the tables List and Count are read against, as the tests of
\* List name them: the row with id i holds the i-th name and address.
RowNames == <<"user1", "user2", "user3", "user4">>
RowEmails == <<"user1@example.com", "user2@example.com",
               "user3@example.com", "user4@example.com">>

\* The callers that call Create at the same time, the one email they all
\* pass and the usernames they pass with it.
Procs == 1..NProcs
RaceEmail == "anna@example.com"
RaceUsernames == Usernames \cup {"user1"}

\* What the entry point reads from its configuration file: the logger's
\* level, encoding and output path and the port of the database.
Levels == {"debug", "info", "warn", "error", ""}
Encodings == {"console", "json"}
OutputPaths == {"", "app.log"}
Ports == {5432, 70968}

\* -------------------------------------------------------------- the state
VARIABLES
    users,      \* rows of the table users
    seq,        \* last value handed out by users_id_seq
    clock,      \* last timestamp handed out by the store's now()
    last,       \* the last repository call: input, pool outcome, result
    before,     \* rows of the table when the last call was issued
    created,    \* the call before the last one, when it was a successful Create
    deleted,    \* ids a Delete ran on since the last Create call
    again,      \* the last call is a Delete on an id that was in deleted
    page,       \* limit and offset of the last call when it is a List, and
                \* the row its pool outcome strikes
    listed,     \* the []User the last call returned (<<>> is the nil slice)
    log,        \* the records the last call wrote to its logger, in order
    issued,     \* the methods of the pool the last call called, in order
    panicked,   \* the operation whose call ended in a panic ("": none did)
    race,       \* per caller of a concurrent Create: where its call is, its
                \* input, what the pool answered and what the call returned
                \* (<<>>: no Create is called concurrently)
    main,       \* the entry point: where it is, its configuration, the pool
                \* and what Connect returned
    counted     \* when the last call is a List: what the call before it
                \* returned, when that was a Count that ran (NoCount: none)

vars == <<users, seq, clock, last, before, created, deleted, again, page,
          listed, log, issued, panicked, race, main, counted>>

\* type User struct
User(id, username, email, passhash, create_at, update_at) ==
    [id |-> id, username |-> username, email |-> email, passhash |-> passhash,
     create_at |-> create_at, update_at |-> update_at]

\* The zero User: what a call that takes only an id leaves in last.arg.
ZeroUser == User(0, "", "", "", 0, 0)

\* -------------------------------------------------------------- errors
\* An error value: the format that built its message, the %d argument (or
\* NoId), the message of the error formatted into it, and the set of errors
\* errors.Is finds in its chain.
NoId == -1

Err(fmt, id, cause, is) == [fmt |-> fmt, id |-> id, cause |-> cause, is |-> is]

\* the nil error
Nil == Err("", NoId, "", {})

\* errors.New: a sentinel matches only itself
New(text) == Err(text, NoId, "", {text})

ErrUserAlreadyExists == New("user already exists")
ErrDB == New("database error")
ErrNoUsers == New("no users found")

\* pgx.ErrNoRows
ErrNoRows == New("no rows in result set")
\* causes the pool reports
ConnLost == New("connection lost")
IterFailure == New("iteration error")
ScanFailure == New("cannot scan value")
UniqueViolation == New("duplicate key value violates unique constraint")
\* what the store raises for a negative $2 and a negative $1 of
\* "limit $1 offset $2"
InvalidOffset == New("OFFSET must not be negative")
InvalidLimit == New("LIMIT must not be negative")

\* errors.Is(err, target)
Is(err, target) == target.is # {} /\ target.is \subseteq err.is

\* err.Error() of a cause formatted into a message
Message(err) == err.fmt

\* fmt.Errorf("<text>", id): a fresh error that matches no sentinel
Errorf(text, id) == Err(text, id, "", {})

\* fmt.Errorf("<text>: %w", err): the message names err, the chain keeps it
Wrap(text, id, err) == Err(text, id, Message(err), err.is)

\* fmt.Errorf("%w: %s", sentinel, err): the chain keeps the sentinel only,
\* err is formatted into the message as text
WrapSentinel(sentinel, err) == Err(sentinel.fmt, NoId, Message(err), sentinel.is)

\* ------------------------------------------------------------ the store
\* The outcome of one statement: the table, sequence and clock after it,
\* the rows it returns (or, for delete, affects), and the error it raises.
Outcome(us, s, c, rows, err) ==
    [users |-> us, seq |-> s, clock |-> c, rows |-> rows, err |-> err]

\* the statement never reaches the store
Unreached(err) == Outcome(users, seq, clock, {}, err)

\* now(): later than every timestamp the store has assigned
Now == clock + 1

\* Insert with u.Email and u.Username bound to each other's placeholder.
InsertSwapsColumns(u) ==
    LET row == User(seq + 1, u.email, u.username, u.passhash, Now, Now)
    IN  IF \E r \in users : r.email = row.email
        THEN Outcome(users, seq + 1, clock, {}, Nil)
        ELSE IF \E r \in users : r.username = row.username
        THEN Outcome(users, seq + 1, clock, {}, UniqueViolation)
        ELSE Outcome(users \cup {row}, seq + 1, Now, {row}, Nil)

\* Insert without its on conflict clause: a held email raises as well.
InsertNoArbiter(u) ==
    LET row == User(seq + 1, u.username, u.email, u.passhash, Now, Now)
    IN  IF \E r \in users : r.email = u.email \/ r.username = u.username
        THEN Outcome(users, seq + 1, clock, {}, UniqueViolation)
        ELSE Outcome(users \cup {row}, seq + 1, Now, {row}, Nil)

\* Insert into a table whose username column has no unique index.
InsertNoUsernameIndex(u) ==
    LET row == User(seq + 1, u.username, u.email, u.passhash, Now, Now)
    IN  IF \E r \in users : r.email = u.email
        THEN Outcome(users, seq + 1, clock, {}, Nil)
        ELSE Outcome(users \cup {row}, seq + 1, Now, {row}, Nil)

\* insert into users (username, email, passhash) values ($1, $2, $3)
\* on conflict (email) do nothing returning id
\* The row takes its id from the sequence (consumed whether or not the row
\* is kept) and both timestamps from now().  The arbiter index (email) is
\* probed first: a conflict there inserts nothing and returns no row.  The
\* other unique index (username) raises a unique violation.
Insert(u) ==
    LET row == User(seq + 1, u.username, u.email, u.passhash, Now, Now)
    IN  IF \E r \in users : r.email = u.email
        THEN Outcome(users, seq + 1, clock, {}, Nil)
        ELSE IF \E r \in users : r.username = u.username
        THEN Outcome(users, seq + 1, clock, {}, UniqueViolation)
        ELSE Outcome(users \cup {row}, seq + 1, Now, {row}, Nil)

\* SelectByID written as "delete ... returning": the row read is removed.
SelectByIDRemoves(id) ==
    LET rows == {r \in users : r.id = id}
    IN  Outcome(users \ rows, seq, clock, rows, Nil)

\* select id, username, email, passhash, create_at, update_at
\* from users where id = $1
SelectByID(id) == Outcome(users, seq, clock, {r \in users : r.id = id}, Nil)

\* UpdateRow with update_at set from the caller's UpdateAt, not from now().
UpdateRowCallerTime(u) ==
    LET old == {r \in users : r.id = u.id}
        new == {User(r.id, u.username, u.email, u.passhash, r.create_at, u.update_at) : r \in old}
        rest == users \ old
    IN  IF old = {}
        THEN Outcome(users, seq, clock, {}, Nil)
        ELSE IF \E r \in rest : r.email = u.email \/ r.username = u.username
        THEN Outcome(users, seq, clock, {}, UniqueViolation)
        ELSE Outcome(rest \cup new, seq, Now, new, Nil)

\* update users set username = $1, email = $2, passhash = $3,
\* update_at = now() where id = $4 returning id, username, ...
UpdateRow(u) ==
    LET old == {r \in users : r.id = u.id}
        new == {User(r.id, u.username, u.email, u.passhash, r.create_at, Now) : r \in old}
        rest == users \ old
    IN  IF old = {}
        THEN Outcome(users, seq, clock, {}, Nil)
        ELSE IF \E r \in rest : r.email = u.email \/ r.username = u.username
        THEN Outcome(users, seq, clock, {}, UniqueViolation)
        ELSE Outcome(rest \cup new, seq, Now, new, Nil)

\* DeleteRow without its where clause: every row goes.
DeleteRowNoWhere(id) == Outcome({}, seq, clock, users, Nil)

\* DeleteRow that marks the row and keeps it: a row is affected, none goes.
DeleteRowKeeps(id) == Outcome(users, seq, clock, {r \in users : r.id = id}, Nil)

\* delete from users where id = $1
DeleteRow(id) ==
    LET gone == {r \in users : r.id = id}
    IN  Outcome(users \ gone, seq, clock, gone, Nil)

\* order by id
RECURSIVE OrderByID(_)
OrderByID(rows) ==
    IF rows = {} THEN <<>>
    ELSE LET first == CHOOSE r \in rows : \A s \in rows : r.id <= s.id
         IN  <<first>> \o OrderByID(rows \ {first})

\* limit $1 offset $2 over the ordered rows
LimitOffset(rows, limit, offset) ==
    LET m == IF offset + limit < Len(rows) THEN offset + limit ELSE Len(rows)
    IN  IF offset < m THEN SubSeq(rows, offset + 1, m) ELSE <<>>

\* SelectPage that leaves the offset out of the statement.
SelectPageNoOffset(limit, offset) ==
    Outcome(users, seq, clock, LimitOffset(OrderByID(users), limit, 0), Nil)

\* SelectPage that reads a negative limit or offset as 0.
SelectPageClamps(limit, offset) ==
    Outcome(users, seq, clock,
            LimitOffset(OrderByID(users), IF limit < 0 THEN 0 ELSE limit,
                        IF offset < 0 THEN 0 ELSE offset), Nil)

\* select ... from users order by id limit $1 offset $2: the store rejects
\* a negative offset or limit when it starts the statement, whatever the
\* table holds
SelectPage(limit, offset) ==
    IF offset < 0 THEN Outcome(users, seq, clock, <<>>, InvalidOffset)
    ELSE IF limit < 0 THEN Outcome(users, seq, clock, <<>>, InvalidLimit)
    ELSE Outcome(users, seq, clock,
                 LimitOffset(OrderByID(users), limit, offset), Nil)

\* select count(id) from users: one row, the number of users
SelectCount == Outcome(users, seq, clock, {Cardinality(users)}, Nil)

\* ------------------------------------------------------------- the pool
\* pgx.Row.Scan of QueryRow: the statement's error, else ErrNoRows when it
\* returned no row, else the decode error, else nil.
Scan(st, fault) ==
    IF st.err # Nil THEN st.err
    ELSE IF st.rows = {} THEN ErrNoRows
    ELSE IF fault = "scan" THEN ScanFailure
    ELSE Nil

\* CommandTag.RowsAffected
RowsAffected(st) == Cardinality(st.rows)

\* pgx.Rows of Query: the error Query returns, the rows Next steps through
\* and the error Err reports once Next has returned false.
Query(st, fault) ==
    IF fault = "conn" THEN [err |-> ConnLost, rows |-> {}, rowsErr |-> Nil]
    ELSE IF fault = "iter" THEN [err |-> Nil, rows |-> {}, rowsErr |-> IterFailure]
    ELSE [err |-> Nil, rows |-> st.rows, rowsErr |-> Nil]

\* pgx.Rows.Scan of the current row
RowsScan(fault) == IF fault = "scan" THEN ScanFailure ELSE Nil

\* pgx.Rows of List's Query: as Query, over the rows in the statement's
\* order; a cursor that fails hands out the first `at` rows before Next
\* returns false and Err reports the failure.  An error the store raises
\* for the statement is read from the cursor: Next returns false at once
\* and Err reports it.
QueryRows(st, fault, at) ==
    IF fault = "conn" THEN [err |-> ConnLost, rows |-> <<>>, rowsErr |-> Nil]
    ELSE IF fault = "iter"
    THEN [err |-> Nil, rows |-> SubSeq(st.rows, 1, at), rowsErr |-> IterFailure]
    ELSE IF st.err # Nil
    THEN [err |-> Nil, rows |-> <<>>, rowsErr |-> st.err]
    ELSE [err |-> Nil, rows |-> st.rows, rowsErr |-> Nil]

\* pgx.Rows.Scan of the i-th row of a cursor whose row `at` fails to decode
RowsScanAt(fault, at, i) == IF fault = "scan" /\ i = at THEN ScanFailure ELSE Nil

\* Exec: the error it returns
Exec(fault) == IF fault = "conn" THEN ConnLost ELSE Nil

\* What a statement does to the store under a pool outcome: a transport
\* failure keeps it from the store, anything else lets it run.
Run(st, fault) == IF fault = "conn" THEN Unreached(ConnLost) ELSE st

\* ------------------------------------------------------- the repository
\* What a call returns: the identifier (Create), the *User (GetByID, Update;
\* {} is the nil pointer) and the error.
Result(id, user, err) == [id |-> id, user |-> user, err |-> err]

\* The record of a call kept in last.
Call(op, arg, fault, res) ==
    [op |-> op, arg |-> arg, fault |-> fault,
     id |-> res.id, user |-> res.user, err |-> res.err]

\* CreateResult without the test for pgx.ErrNoRows.
CreateResultNoConflictTest(err, id) ==
    IF err # Nil THEN Result(0, {}, WrapSentinel(ErrDB, err))
    ELSE Result(id, {}, Nil)

\* pgUserRepository.Create, from the Scan of the returned id on
CreateResult(err, id) ==
    IF Is(err, ErrNoRows) THEN Result(0, {}, ErrUserAlreadyExists)
    ELSE IF err # Nil THEN Result(0, {}, WrapSentinel(ErrDB, err))
    ELSE Result(id, {}, Nil)

\* GetByIDResult without the else branch: no row leaves the zero User.
GetByIDResultZeroUser(id, q, fault) ==
    IF q.err # Nil
    THEN Result(0, {}, Wrap("failed GetByID query", NoId, q.err))
    ELSE IF q.rows # {} /\ RowsScan(fault) # Nil
    THEN Result(0, {}, Wrap("scan GetByID row", NoId, RowsScan(fault)))
    ELSE IF q.rows # {}
    THEN Result(0, {CHOOSE r \in q.rows : TRUE}, Nil)
    ELSE Result(0, {ZeroUser}, Nil)

\* pgUserRepository.GetByID, from the Query's return on
GetByIDResult(id, q, fault) ==
    IF q.err # Nil
    THEN Result(0, {}, Wrap("failed GetByID query", NoId, q.err))
    ELSE IF q.rows # {}
    THEN IF RowsScan(fault) # Nil
         THEN Result(0, {}, Wrap("scan GetByID row", NoId, RowsScan(fault)))
         ELSE Result(0, {CHOOSE r \in q.rows : TRUE}, Nil)
    ELSE IF q.rowsErr # Nil
    THEN Result(0, {}, Wrap("rows integration GetByID", NoId, q.rowsErr))
    ELSE Result(0, {}, Errorf("user with id %d not found", id))

\* UpdateResult with the not-found error built without %w.
UpdateResultNotFoundUnwrapped(u, err, rows) ==
    IF err # Nil
    THEN IF Is(err, ErrNoRows)
         THEN Result(0, {}, Errorf("user with id %d not found", u.id))
         ELSE Result(0, {}, Wrap("failed query Update", NoId, err))
    ELSE Result(0, {CHOOSE r \in rows : TRUE}, Nil)

\* UpdateResult with the cause formatted by %s, as Create does.
UpdateResultCauseAsText(u, err, rows) ==
    IF err # Nil
    THEN IF Is(err, ErrNoRows)
         THEN Result(0, {}, Wrap("user with id %d not found", u.id, err))
         ELSE Result(0, {}, Err("failed query Update", NoId, Message(err), {}))
    ELSE Result(0, {CHOOSE r \in rows : TRUE}, Nil)

\* UpdateResult that returns &usr, the zero User, beside the error.
UpdateResultUserOnError(u, err, rows) ==
    IF err # Nil
    THEN IF Is(err, ErrNoRows)
         THEN Result(0, {ZeroUser}, Wrap("user with id %d not found", u.id, err))
         ELSE Result(0, {ZeroUser}, Wrap("failed query Update", NoId, err))
    ELSE Result(0, {CHOOSE r \in rows : TRUE}, Nil)

\* pgUserRepository.Update, from the Scan of the returned row on
UpdateResult(u, err, rows) ==
    IF err # Nil
    THEN IF Is(err, ErrNoRows)
         THEN Result(0, {}, Wrap("user with id %d not found", u.id, err))
         ELSE Result(0, {}, Wrap("failed query Update", NoId, err))
    ELSE Result(0, {CHOOSE r \in rows : TRUE}, Nil)

\* DeleteResult without the test of RowsAffected.
DeleteResultIgnoresCount(id, err, affected) ==
    IF err # Nil THEN Result(0, {}, Wrap("failed delete user", NoId, err))
    ELSE Result(0, {}, Nil)

\* pgUserRepository.Delete, from Exec's return on
DeleteResult(id, err, affected) ==
    IF err # Nil THEN Result(0, {}, Wrap("failed delete user", NoId, err))
    ELSE IF affected = 0 THEN Result(0, {}, Errorf("user with id %d not found", id))
    ELSE Result(0, {}, Nil)

\* What List returns: the []User and the error.
Listing(list, err) == [list |-> list, err |-> err]

\* ListLoop that returns what it has when a row fails.
RECURSIVE ListLoopPartial(_, _, _, _, _)
ListLoopPartial(q, fault, at, i, acc) ==
    IF i <= Len(q.rows)
    THEN IF RowsScanAt(fault, at, i) # Nil
         THEN Listing(acc, Wrap("failed scan user List", NoId,
                                RowsScanAt(fault, at, i)))
         ELSE ListLoopPartial(q, fault, at, i + 1, Append(acc, q.rows[i]))
    ELSE IF q.rowsErr # Nil
    THEN Listing(acc, Wrap("rows interation List", NoId, q.rowsErr))
    ELSE Listing(acc, Nil)

\* ListResult over ListLoopPartial.
ListResultPartial(q, fault, at) ==
    IF q.err # Nil
    THEN Listing(<<>>, Wrap("failed query List", NoId, q.err))
    ELSE ListLoopPartial(q, fault, at, 1, <<>>)

\* pgUserRepository.List, the loop over rows.Next and the test of rows.Err
\* after it: i is the row Next moves to, acc the users appended so far.
RECURSIVE ListLoop(_, _, _, _, _)
ListLoop(q, fault, at, i, acc) ==
    IF i <= Len(q.rows)
    THEN IF RowsScanAt(fault, at, i) # Nil
         THEN Listing(<<>>, Wrap("failed scan user List", NoId,
                                 RowsScanAt(fault, at, i)))
         ELSE ListLoop(q, fault, at, i + 1, Append(acc, q.rows[i]))
    ELSE IF q.rowsErr # Nil
    THEN Listing(<<>>, Wrap("rows interation List", NoId, q.rowsErr))
    ELSE Listing(acc, Nil)

\* pgUserRepository.List, from the Query's return on
ListResult(q, fault, at) ==
    IF q.err # Nil
    THEN Listing(<<>>, Wrap("failed query List", NoId, q.err))
    ELSE ListLoop(q, fault, at, 1, <<>>)

\* CountResult without the test for zero.
CountResultNoZeroTest(err, count) ==
    IF err # Nil THEN Result(0, {}, Wrap("failed query Count", NoId, err))
    ELSE Result(count, {}, Nil)

\* pgUserRepository.Count, from the Scan of the count on
CountResult(err, count) ==
    IF err # Nil THEN Result(0, {}, Wrap("failed query Count", NoId, err))
    ELSE IF count = 0 THEN Result(0, {}, ErrNoUsers)
    ELSE Result(count, {}, Nil)

\* --------------------------------------------------- calls to the pool
\* The methods of storage.DBPool each operation calls, in order, from its
\* entry to any of its returns.
CreateIssues == <<"QueryRow">>
GetByIDIssues == <<"Query">>
\* An Update that looks the user up before it updates it.
UpdateIssuesLookup == <<"Query", "QueryRow">>
UpdateIssues == <<"QueryRow">>
DeleteIssues == <<"Exec">>
ListIssues == <<"Query">>
CountIssues == <<"QueryRow">>

\* ------------------------------------------------------------ the log
\* A record of logger.Logger: the severity (the method called), the message
\* and the fields "error" (Nil: not given) and "user_id" (NoId: not given).
Log(level, msg, err, id) ==
    [level |-> level, msg |-> msg, error |-> err, user_id |-> id]

\* pgUserRepository.Create: what it logs
CreateLog(err, id) ==
    IF Is(err, ErrNoRows) THEN <<>>
    ELSE IF err # Nil THEN <<Log("error", "failed to create user", err, NoId)>>
    ELSE <<Log("info", "created user with id: ", Nil, id)>>

\* pgUserRepository.GetByID: what it logs
GetByIDLog(id, q, fault) ==
    IF q.err # Nil
    THEN <<Log("error", "failed to execute query GetByID", q.err, id)>>
    ELSE IF q.rows # {}
    THEN IF RowsScan(fault) # Nil
         THEN <<Log("error", "failed to scan row GetByID", RowsScan(fault), id)>>
         ELSE <<>>
    ELSE IF q.rowsErr # Nil
    THEN <<Log("error", "rows iteration err GetByID", q.rowsErr, id)>>
    ELSE <<Log("info", "user not found", Nil, id)>>

\* pgUserRepository.Update: what it logs
UpdateLog(u, err) ==
    IF err = Nil THEN <<>>
    ELSE <<Log("error", "failed to execute query Update", err, u.id)>>
         \o (IF Is(err, ErrNoRows)
             THEN <<Log("error", "user not found", Nil, u.id)>>
             ELSE <<>>)

\* pgUserRepository.Delete: what it logs
DeleteLog(id, err, affected) ==
    IF err # Nil THEN <<Log("error", "failed to execute query Delete", err, id)>>
    ELSE IF affected = 0 THEN <<Log("error", "user not found", Nil, id)>>
    ELSE <<>>

\* pgUserRepository.List: what it logs
ListLog(q, fault, at) ==
    IF q.err # Nil
    THEN <<Log("error", "failed to execute query List", q.err, NoId)>>
    ELSE IF \E i \in 1..Len(q.rows) : RowsScanAt(fault, at, i) # Nil
    THEN <<Log("error", "failed scan List", RowsScanAt(fault, at, at), NoId)>>
    ELSE IF q.rowsErr # Nil
    THEN <<Log("error", "rows iteration error in users List", q.rowsErr, NoId)>>
    ELSE <<>>

\* pgUserRepository.Count: what it logs
CountLog(err, count) ==
    IF err # Nil THEN <<Log("error", "failed execute query Count", err, NoId)>>
    ELSE IF count = 0 THEN <<Log("error", "not users found", Nil, NoId)>>
    ELSE <<>>

\* The successful Create a call follows directly, if any: its input with
\* the identifier it returned.
Created ==
    IF last.op = "Create" /\ last.err = Nil
    THEN {[last.arg EXCEPT !.id = last.id]}
    ELSE {}

\* No Count precedes the call.
NoCount == -1

\* The count a Count returned, when the call a List follows directly is a
\* Count whose query ran and decoded (0 stands for its ErrNoUsers).
Counted ==
    IF last.op = "Count" /\ (last.err = Nil \/ last.err = ErrNoUsers)
    THEN last.id
    ELSE NoCount

\* A run ends where the sequence or the clock would pass its bound.
WithinBounds(st) == st.seq <= MaxSeq /\ st.clock <= MaxClock

\* A decode failure is the outcome of a call only where a row is returned.
Decodes(st, fault) == fault = "scan" => st.rows # {}

\* The row a pool outcome strikes is one the statement returns: a decode
\* failure strikes one of its rows, a cursor failure comes after any number
\* of them, the other outcomes strike none.
Strikes(st, fault, at) ==
    IF fault = "scan" THEN at \in 1..Len(st.rows)
    ELSE IF fault = "iter" THEN at \in 0..Len(st.rows)
    ELSE at = 0

\* page of a call that is no List
NoPage == [limit |-> 0, offset |-> 0, at |-> 0]

\* What every call that returns does to the state: the store takes the
\* statement's outcome, the call is recorded.  No call is made once one has
\* ended in a panic: nothing in the repository recovers it.
Step(st, call, del) ==
    /\ panicked = ""
    /\ panicked' = ""
    /\ race' = race
    /\ main' = main
    /\ users' = st.users
    /\ seq' = st.seq
    /\ clock' = st.clock
    /\ last' = call
    /\ before' = users
    /\ created' = Created
    /\ deleted' = del
    /\ again' = (call.op = "Delete" /\ call.arg.id \in deleted)
    /\ counted' = IF call.op = "List" THEN Counted ELSE NoCount

Create(u, fault) ==
    LET st == Run(Insert(u), fault)
        err == Scan(st, fault)
        id == IF err = Nil THEN (CHOOSE r \in st.rows : TRUE).id ELSE 0
    IN  /\ WithinBounds(st)
        /\ Step(st, Call("Create", u, fault, CreateResult(err, id)), {})
        /\ page' = NoPage
        /\ listed' = <<>>
        /\ log' = CreateLog(err, id)
        /\ issued' = CreateIssues

GetByID(id, fault) ==
    LET st == Run(SelectByID(id), fault)
        arg == [ZeroUser EXCEPT !.id = id]
    IN  /\ Decodes(st, fault)
        /\ Step(st, Call("GetByID", arg, fault, GetByIDResult(id, Query(st, fault), fault)),
                deleted)
        /\ page' = NoPage
        /\ listed' = <<>>
        /\ log' = GetByIDLog(id, Query(st, fault), fault)
        /\ issued' = GetByIDIssues

Update(u, fault) ==
    LET st == Run(UpdateRow(u), fault)
        err == Scan(st, fault)
    IN  /\ WithinBounds(st)
        /\ Decodes(st, fault)
        /\ Step(st, Call("Update", u, fault, UpdateResult(u, err, st.rows)), deleted)
        /\ page' = NoPage
        /\ listed' = <<>>
        /\ log' = UpdateLog(u, err)
        /\ issued' = UpdateIssues

Delete(id, fault) ==
    LET st == Run(DeleteRow(id), fault)
        arg == [ZeroUser EXCEPT !.id = id]
    IN  /\ Step(st, Call("Delete", arg, fault,
                         DeleteResult(id, Exec(fault), RowsAffected(st))),
                IF fault = "conn" THEN deleted ELSE deleted \cup {id})
        /\ page' = NoPage
        /\ listed' = <<>>
        /\ log' = DeleteLog(id, Exec(fault), RowsAffected(st))
        /\ issued' = DeleteIssues

\* Create(ctx, nil): the arguments of QueryRow are evaluated first, and
\* u.Username on the nil pointer is a run-time panic; no statement is issued,
\* nothing is logged, nothing is returned.
CreateNil ==
    /\ panicked = ""
    /\ panicked' = "Create"
    /\ UNCHANGED <<users, seq, clock, last, before, created, deleted, again,
                   page, listed, log, issued, race, main, counted>>

\* Update(ctx, nil): as Create(ctx, nil).
UpdateNil ==
    /\ panicked = ""
    /\ panicked' = "Update"
    /\ UNCHANGED <<users, seq, clock, last, before, created, deleted, again,
                   page, listed, log, issued, race, main, counted>>

\* A caller that has not called Create yet.
Idle ==
    [pc |-> "idle", arg |-> ZeroUser, fault |-> "none", scan |-> Nil,
     id |-> 0, err |-> Nil]

\* Create called by caller p while other callers' calls are under way, up
\* to the answer of the pool: QueryRow hands the insert to the pool, which
\* runs it on a connection of its own; the store runs each statement as
\* one step.  The answer (what Scan will report) waits for the caller.
CreateQueryRow(p, u, fault) ==
    LET st == Run(Insert(u), fault)
        err == Scan(st, fault)
        id == IF err = Nil THEN (CHOOSE r \in st.rows : TRUE).id ELSE 0
    IN  /\ race[p].pc = "idle"
        /\ users' = st.users
        /\ seq' = st.seq
        /\ clock' = st.clock
        /\ race' = [race EXCEPT ![p] =
                      [pc |-> "sent", arg |-> u, fault |-> fault, scan |-> err,
                       id |-> id, err |-> Nil]]
        /\ UNCHANGED <<last, before, created, deleted, again, page, listed,
                       log, issued, panicked, main, counted>>

\* Create of caller p from the answer on: Scan reports it, Create returns.
CreateScan(p) ==
    LET res == CreateResult(race[p].scan, race[p].id)
    IN  /\ race[p].pc = "sent"
        /\ race' = [race EXCEPT ![p] =
                      [@ EXCEPT !.pc = "done", !.id = res.id, !.err = res.err]]
        /\ UNCHANGED <<users, seq, clock, last, before, created, deleted, again,
                       page, listed, log, issued, panicked, main, counted>>

\* ------------------------------------------------------ the entry point
\* The causes pgxpool reports to Connect.
PoolRefused == New("cannot create pool")
PingFailure == New("connection refused")

\* The entry point before its first statement: no configuration read, no
\* pool built, Connect not called (made, probe: the outcomes of its two
\* steps; db, err: what it returned), no repository constructed.
NotStarted ==
    [pc |-> "start", level |-> "", encoding |-> "", output |-> "", port |-> 0,
     zapLevel |-> "", pool |-> "none", poolPort |-> 0, made |-> "", probe |-> "",
     db |-> FALSE, err |-> Nil, built |-> 0, pings |-> 0, closes |-> 0,
     repos |-> 0, code |-> 0]

\* newZapLogger: the zap level of a configured level
ZapLevel(level) ==
    IF level \in {"debug", "info", "warn", "error"} THEN level ELSE "info"

\* uint16(cfg.Port)
Uint16(n) == n % 65536

\* Connect, from the return of pgxpool.NewWithConfig to the liveness probe
NewWithConfigResult(ok) ==
    IF ok
    THEN [pc |-> "ping", pool |-> "open", made |-> "ok", db |-> FALSE, err |-> Nil]
    ELSE [pc |-> "returned", pool |-> "none", made |-> "fail", db |-> FALSE,
          err |-> Wrap("pgxpool.NewWithConfig", NoId, PoolRefused)]

\* PingResult that returns the DB whatever the probe reports.
PingResultIgnored(ok) ==
    [probe |-> IF ok THEN "ok" ELSE "fail", db |-> TRUE, err |-> Nil]

\* Connect, from the return of pool.Ping on
PingResult(ok) ==
    IF ok
    THEN [probe |-> "ok", db |-> TRUE, err |-> Nil]
    ELSE [probe |-> "fail", db |-> FALSE, err |-> Wrap("ping db", NoId, PingFailure)]

\* The variables of the repository and of its callers, which the entry
\* point leaves alone: it constructs no repository.
Repo ==
    <<users, seq, clock, last, before, created, deleted, again, page, listed,
      log, issued, panicked, race, counted>>

\* main: config.MustLoadConfig; on an error log.Fatal ends the process
\* with code 1.
MustLoadConfig(ok, level, encoding, output, port) ==
    /\ main.pc = "start"
    /\ main' = IF ok
               THEN [main EXCEPT !.pc = "logger", !.level = level,
                                 !.encoding = encoding, !.output = output,
                                 !.port = port]
               ELSE [main EXCEPT !.pc = "exited", !.code = 1]
    /\ UNCHANGED Repo

\* main: logger.New; it fails only where the output path cannot be opened,
\* and main returns.
LoggerNew(ok) ==
    /\ main.pc = "logger"
    /\ ~ok => main.output # ""
    /\ main' = IF ok
               THEN [main EXCEPT !.pc = "connect", !.zapLevel = ZapLevel(main.level)]
               ELSE [main EXCEPT !.pc = "exited"]
    /\ UNCHANGED Repo

\* Connect: the pool configuration and pgxpool.NewWithConfig
ConnectNewWithConfig(ok) ==
    LET res == NewWithConfigResult(ok)
    IN  /\ main.pc = "connect"
        /\ main' = [main EXCEPT !.pc = res.pc, !.pool = res.pool,
                                !.poolPort = Uint16(main.port),
                                !.made = res.made, !.db = res.db,
                                !.err = res.err, !.built = @ + 1]
        /\ UNCHANGED Repo

\* Connect: pool.Ping and the return
ConnectPing(ok) ==
    LET res == PingResult(ok)
    IN  /\ main.pc = "ping"
        /\ main' = [main EXCEPT !.pc = "returned", !.probe = res.probe,
                                !.db = res.db, !.err = res.err,
                                !.pings = @ + 1]
        /\ UNCHANGED Repo

\* main, from the return of Connect to its end: it returns on an error,
\* and with a DB it has nothing left to do but return.
MainReturn ==
    /\ main.pc = "returned"
    /\ main' = [main EXCEPT !.pc = "exited"]
    /\ UNCHANGED Repo

List(limit, offset, fault, at) ==
    LET st == Run(SelectPage(limit, offset), fault)
        res == ListResult(QueryRows(st, fault, at), fault, at)
    IN  /\ Strikes(st, fault, at)
        /\ Step(st, Call("List", ZeroUser, fault, Result(0, {}, res.err)), deleted)
        /\ page' = [limit |-> limit, offset |-> offset, at |-> at]
        /\ listed' = res.list
        /\ log' = ListLog(QueryRows(st, fault, at), fault, at)
        /\ issued' = ListIssues

Count(fault) ==
    LET st == Run(SelectCount, fault)
        err == Scan(st, fault)
        count == IF err = Nil THEN CHOOSE n \in st.rows : TRUE ELSE 0
    IN  /\ Step(st, Call("Count", ZeroUser, fault, CountResult(err, count)), deleted)
        /\ page' = NoPage
        /\ listed' = <<>>
        /\ log' = CountLog(err, count)
        /\ issued' = CountIssues

\* ------------------------------------------------------ specification
\* The *User a caller passes to Create: the three fields it sets.
CreateInputs ==
    {User(0, n, e, p, 0, 0) : n \in Usernames, e \in Emails, p \in PassHashes}

\* The *User a caller passes to Update: any id, the three mutable fields
\* and the timestamps the caller's copy holds.
UpdateInputs ==
    {User(i, n, e, p, t, t) : i \in Ids, n \in Usernames, e \in Emails,
                              p \in PassHashes, t \in CallerTimes}

\* The empty table of the migration, nothing called yet.
Init ==
    /\ users = {}
    /\ seq = 0
    /\ clock = 0
    /\ last = Call("none", ZeroUser, "none", Result(0, {}, Nil))
    /\ before = {}
    /\ created = {}
    /\ deleted = {}
    /\ again = FALSE
    /\ page = NoPage
    /\ listed = <<>>
    /\ log = <<>>
    /\ issued = <<>>
    /\ panicked = ""
    /\ race = <<>>
    /\ main = NotStarted
    /\ counted = NoCount

Next ==
    \/ \E u \in CreateInputs, f \in {"none", "conn"} : Create(u, f)
    \/ \E id \in Ids, f \in Faults : GetByID(id, f)
    \/ \E u \in UpdateInputs, f \in {"none", "conn", "scan"} : Update(u, f)
    \/ \E id \in Ids, f \in {"none", "conn"} : Delete(id, f)
    \/ \E limit \in {2}, offset \in {0, 1}, f \in Faults, at \in {0, 1} :
           List(limit, offset, f, at)
    \/ \E f \in {"none", "conn", "scan"} : Count(f)

Spec == Init /\ [][Next]_vars

\* The *User the concurrent callers pass to Create: the same email each.
RaceInputs == {User(0, n, RaceEmail, "hash", 0, 0) : n \in RaceUsernames}

\* A table where no user holds RaceEmail: empty, or with one user.
InitRace ==
    /\ users \in {{}, {User(1, "dima", "dima@example.com", "hash", 1, 1)}}
    /\ seq = Cardinality(users)
    /\ clock = Cardinality(users)
    /\ last = Call("none", ZeroUser, "none", Result(0, {}, Nil))
    /\ before = users
    /\ created = {}
    /\ deleted = {}
    /\ again = FALSE
    /\ page = NoPage
    /\ listed = <<>>
    /\ log = <<>>
    /\ issued = <<>>
    /\ panicked = ""
    /\ race = [p \in Procs |-> Idle]
    /\ main = NotStarted
    /\ counted = NoCount

\* Every caller calls Create once; the calls interleave freely.
NextRace ==
    \/ \E p \in Procs, u \in RaceInputs, f \in {"none", "conn"} :
           CreateQueryRow(p, u, f)
    \/ \E p \in Procs : CreateScan(p)

SpecRace == InitRace /\ [][NextRace]_vars

\* The entry point, run once.
NextMain ==
    \/ \E ok \in BOOLEAN, level \in Levels, encoding \in Encodings,
          output \in OutputPaths, port \in Ports :
           MustLoadConfig(ok, level, encoding, output, port)
    \/ \E ok \in BOOLEAN : LoggerNew(ok)
    \/ \E ok \in BOOLEAN : ConnectNewWithConfig(ok)
    \/ \E ok \in BOOLEAN : ConnectPing(ok)
    \/ MainReturn

SpecMain == Init /\ [][NextMain]_vars

\* The calls of Next and the calls that pass the nil *User.
NextNilUser ==
    \/ Next
    \/ CreateNil
    \/ UpdateNil

SpecNilUser == Init /\ [][NextNilUser]_vars

\* The table with the i-th row for every i in ids.
Table(ids) ==
    {User(i, RowNames[i], RowEmails[i], "hash", i, i) : i \in ids}

\* Any table of at most MaxRows rows, nothing called yet: the ids need not
\* be consecutive (rows deleted since).
InitList ==
    /\ users \in {Table(ids) : ids \in SUBSET (1..MaxRows)}
    /\ seq = MaxRows
    /\ clock = MaxRows
    /\ last = Call("none", ZeroUser, "none", Result(0, {}, Nil))
    /\ before = users
    /\ created = {}
    /\ deleted = {}
    /\ again = FALSE
    /\ page = NoPage
    /\ listed = <<>>
    /\ log = <<>>
    /\ issued = <<>>
    /\ panicked = ""
    /\ race = <<>>
    /\ main = NotStarted
    /\ counted = NoCount

\* The reads of the repository.
NextList ==
    \/ \E limit \in Limits, offset \in Offsets, f \in Faults, at \in 0..MaxRows :
           List(limit, offset, f, at)
    \/ \E f \in {"none", "conn", "scan"} : Count(f)

SpecList == InitList /\ [][NextList]_vars

\* ============================================================== claims
\* the last call's statement reached the store
Ran == last.fault # "conn"

\* rows of the table, when the last call was issued, with the call's id
Held == {r \in before : r.id = last.arg.id}

EmailHeld == \E r \in before : r.email = last.arg.email
UsernameHeld == \E r \in before : r.username = last.arg.username

\* the causes a pool reports
Causes == {ConnLost, IterFailure, ScanFailure, UniqueViolation}

\* a GetByID that met no failure, issued right after a successful Create on
\* the identifier that Create returned
GetAfterCreate ==
    /\ last.op = "GetByID"
    /\ last.fault = "none"
    /\ \E c \in created : c.id = last.arg.id

\* that GetByID returns the Create's identifier and input
ReadsBackCreate ==
    \E c \in created :
        last.user = {r \in users : /\ r.id = c.id
                                   /\ r.username = c.username
                                   /\ r.email = c.email
                                   /\ r.passhash = c.passhash}
        /\ Cardinality(last.user) = 1
        /\ last.err = Nil

\* C1 as stated: Create with an email no stored user holds and no transport
\* failure returns an identifier > 0 and a nil error, and a GetByID issued
\* next on that identifier returns the identifier and the Create input.
C1_AsStated ==
    /\ (last.op = "Create" /\ Ran /\ ~EmailHeld) => (last.id > 0 /\ last.err = Nil)
    /\ GetAfterCreate => ReadsBackCreate

\* C1 amended: Create with an email and a username no stored user holds and
\* no transport failure returns an identifier > 0 and a nil error, and a
\* GetByID issued next on that identifier returns a user whose ID, Username,
\* Email and PassHash are the identifier and the Create input.
C1_CreateThenGetByID ==
    /\ (last.op = "Create" /\ Ran /\ ~EmailHeld /\ ~UsernameHeld)
          => (last.id > 0 /\ last.err = Nil)
    /\ GetAfterCreate => ReadsBackCreate

C1_Witness == GetAfterCreate /\ last.user # {}

\* Create with a free email and a username another user holds
C1_UsernameTaken ==
    last.op = "Create" /\ Ran /\ ~EmailHeld /\ UsernameHeld

\* C2: a Create whose email a stored user already holds returns identifier 0
\* and an error matching ErrUserAlreadyExists, whether or not its username
\* collides with a stored one too (the statement reaching the store).
C2_CreateConflict ==
    (last.op = "Create" /\ Ran /\ EmailHeld)
        => (last.id = 0 /\ Is(last.err, ErrUserAlreadyExists))

\* email and username both held, by different users or the same one
C2_Witness ==
    /\ last.op = "Create" /\ Ran /\ EmailHeld /\ UsernameHeld
    /\ Is(last.err, ErrUserAlreadyExists)

C2_WitnessUsernameFree ==
    /\ last.op = "Create" /\ Ran /\ EmailHeld /\ ~UsernameHeld
    /\ Is(last.err, ErrUserAlreadyExists)

\* C3 as stated: a Create that fails for a reason other than the zero-row
\* condition returns identifier 0 and an error that matches ErrDB and also
\* the store failure that caused it.
C3_CreateWrapsCause ==
    (last.op = "Create" /\ last.err # Nil /\ ~Is(last.err, ErrUserAlreadyExists))
        => /\ last.id = 0
           /\ Is(last.err, ErrDB)
           /\ \E c \in Causes : Is(last.err, c)

\* what the code does hold to there: ErrDB in the chain, the cause in the
\* message only
C3_CauseAsText ==
    (last.op = "Create" /\ last.err # Nil /\ ~Is(last.err, ErrUserAlreadyExists))
        => /\ last.id = 0
           /\ Is(last.err, ErrDB)
           /\ \E c \in Causes : last.err.cause = Message(c)
           /\ \A c \in Causes : ~Is(last.err, c)

C3_Witness == last.op = "Create" /\ Is(last.err, ErrDB)

\* the error "user with id <id> not found" for the id the last call asked for
NotFoundForId(err) == err.fmt = "user with id %d not found" /\ err.id = last.arg.id

StorageSentinels == {ErrUserAlreadyExists, ErrDB, ErrNoUsers}

\* C4: GetByID maps its three failure points to three distinct outcomes, each
\* with a nil user: a failing query call to "failed GetByID query" wrapping
\* the transport cause; a query that ran and found no row to "user with id
\* <id> not found" for the requested id, matching no storage sentinel; a
\* returned row that fails to decode to "scan GetByID row" wrapping the
\* decode cause.
C4_GetByIDFailurePoints ==
    last.op = "GetByID" =>
        /\ last.fault = "conn" =>
              /\ last.user = {}
              /\ last.err.fmt = "failed GetByID query"
              /\ Is(last.err, ConnLost)
        /\ (last.fault \in {"none", "scan"} /\ Held = {}) =>
              /\ last.user = {}
              /\ NotFoundForId(last.err)
              /\ \A e \in StorageSentinels : ~Is(last.err, e)
        /\ (last.fault = "scan" /\ Held # {}) =>
              /\ last.user = {}
              /\ last.err.fmt = "scan GetByID row"
              /\ Is(last.err, ScanFailure)

\* the three failure points, each reached
C4_Witness == last.op = "GetByID" /\ last.fault = "scan" /\ Held # {} /\ last.err # Nil
C4_WitnessNotFound == last.op = "GetByID" /\ last.fault = "none" /\ Held = {} /\ last.err # Nil
C4_WitnessQuery == last.op = "GetByID" /\ last.fault = "conn" /\ Held # {} /\ last.err # Nil

\* C5: an Update on an identifier no stored user has returns a nil user and
\* the error "user with id <id> not found" for that identifier, whose chain
\* still matches pgx.ErrNoRows (the statement reaching the store).
C5_UpdateNotFound ==
    (last.op = "Update" /\ Ran /\ Held = {})
        => /\ last.user = {}
           /\ NotFoundForId(last.err)
           /\ Is(last.err, ErrNoRows)

C5_Witness == last.op = "Update" /\ Ran /\ Held = {} /\ before # {} /\ last.err # Nil

\* another stored user holds the email or the username the Update asks for
UpdateCollides ==
    \E r \in before \ Held : r.email = last.arg.email \/ r.username = last.arg.username

\* C6: an Update on the identifier of a stored user, with no constraint or
\* transport or decode failure, returns the stored row as it is after the
\* change: Username, Email and PassHash are the input's, ID and CreateAt the
\* row's from before the call, UpdateAt the time the store assigned to this
\* update: later than the row's previous UpdateAt, whatever UpdateAt the
\* caller passed in.
C6_UpdateReturnsStoredRow ==
    (last.op = "Update" /\ last.fault = "none" /\ Held # {} /\ ~UpdateCollides)
        => /\ last.err = Nil
           /\ \E old \in Held :
                 /\ last.user = {User(old.id, last.arg.username, last.arg.email,
                                      last.arg.passhash, old.create_at, clock)}
                 /\ clock > old.update_at
                 /\ \A r \in before : clock > r.update_at /\ clock > r.create_at
           /\ last.user \subseteq users
           /\ users \ last.user = before \ Held

\* an Update that succeeds for a caller whose copy holds a stale UpdateAt
C6_Witness ==
    /\ last.op = "Update" /\ last.err = Nil /\ last.user # {}
    /\ \E r \in last.user : r.update_at # last.arg.update_at

\* C7: an Update that fails for a reason other than the zero-row condition
\* (transport failure, constraint violation, a returned row that fails to
\* decode) returns a nil user and a "failed query Update" error whose chain
\* matches the cause.
C7_UpdateWrapsCause ==
    last.op = "Update" =>
        /\ (last.err # Nil /\ ~Is(last.err, ErrNoRows)) =>
              /\ last.user = {}
              /\ last.err.fmt = "failed query Update"
              /\ \E c \in Causes : Is(last.err, c) /\ last.err.cause = Message(c)
        /\ last.fault = "conn" => Is(last.err, ConnLost)
        /\ (Ran /\ Held # {} /\ UpdateCollides) => Is(last.err, UniqueViolation)
        /\ (last.fault = "scan" /\ Held # {} /\ ~UpdateCollides) => Is(last.err, ScanFailure)

\* the three causes, each reached
C7_Witness == last.op = "Update" /\ Is(last.err, UniqueViolation)
C7_WitnessScan == last.op = "Update" /\ Is(last.err, ScanFailure)
C7_WitnessConn == last.op = "Update" /\ Is(last.err, ConnLost)

\* C8: a Delete on the identifier of a stored user, with no transport
\* failure, returns nil and removes exactly that user: the store then holds
\* every user it held before but that one, each with its fields unchanged.
C8_DeleteRemovesOne ==
    (last.op = "Delete" /\ Ran /\ Held # {})
        => /\ last.err = Nil
           /\ users = before \ Held
           /\ Cardinality(before) = Cardinality(users) + 1

\* a Delete that succeeds and leaves another user stored
C8_Witness == last.op = "Delete" /\ last.err = Nil /\ users # {} /\ before # users

\* C9: Delete classifies its outcomes: the statement runs and affects no row:
\* "user with id <id> not found" for the requested id; the statement cannot
\* be run: "failed delete user" wrapping the transport cause; nil only when
\* at least one row was affected.
C9_DeleteClassifies ==
    last.op = "Delete" =>
        /\ (Ran /\ before = users) =>
              NotFoundForId(last.err) /\ \A c \in Causes : ~Is(last.err, c)
        /\ ~Ran =>
              last.err.fmt = "failed delete user" /\ Is(last.err, ConnLost)
        /\ last.err = Nil => (Ran /\ Cardinality(before \ users) >= 1)

C9_Witness == last.op = "Delete" /\ Ran /\ before = users /\ before # {} /\ last.err # Nil
C9_WitnessExec == last.op = "Delete" /\ ~Ran /\ Held # {} /\ last.err # Nil

\* C10: when a Delete runs on an identifier a Delete already ran on, with no
\* Create in between and no transport failure, it returns the not-found
\* error for that identifier, whatever calls were made in between.
C10_SecondDeleteNotFound ==
    (last.op = "Delete" /\ Ran /\ again)
        => NotFoundForId(last.err)

\* the second Delete, the first one having removed a user and a call on
\* another identifier made in between
C10_Witness ==
    /\ last.op = "Delete" /\ Ran /\ again
    /\ Cardinality(deleted) > 1
    /\ last.arg.id <= seq
    /\ last.err # Nil

\* the position, counted from 0, of a stored user among the stored users
\* in ascending order of id
Position(r) == Cardinality({s \in before : s.id < r.id})

\* the stored users at the positions offset .. offset+limit-1
Window ==
    {r \in before : Position(r) \in page.offset..(page.offset + page.limit - 1)}

\* C11: for every store content and every limit >= 0 and offset >= 0, a List
\* that meets no failure returns, with a nil error, exactly the users at the
\* positions offset .. offset+limit-1 of the stored users sorted by
\* ascending id, in that order; an empty window gives the empty sequence.
C11_ListWindow ==
    (last.op = "List" /\ last.fault = "none"
       /\ page.limit >= 0 /\ page.offset >= 0) =>
        /\ last.err = Nil
        /\ Len(listed) = Cardinality(Window)
        /\ \A i \in DOMAIN listed :
              listed[i] \in before /\ Position(listed[i]) = page.offset + i - 1

\* a window inside the table: users before it, users after it
C11_Witness ==
    /\ last.op = "List" /\ last.fault = "none"
    /\ page.offset >= 1 /\ page.limit >= 1
    /\ Len(listed) = page.limit
    /\ Cardinality(before) > page.offset + page.limit

\* a window past the end of a table that holds users
C11_WitnessEmpty ==
    /\ last.op = "List" /\ last.fault = "none"
    /\ before # {} /\ page.limit >= 1
    /\ listed = <<>> /\ last.err = Nil

\* C12: List returns no partial result: when the query fails, when a row
\* fails to decode (the first, a middle or the last one) or when the cursor
\* reports an error, it returns the nil sequence and an error that wraps the
\* cause, whatever rows decoded before.
C12_ListNoPartial ==
    last.op = "List" =>
        /\ last.err # Nil => listed = <<>>
        /\ last.fault = "conn" =>
              last.err.fmt = "failed query List" /\ Is(last.err, ConnLost)
        /\ last.fault = "scan" =>
              last.err.fmt = "failed scan user List" /\ Is(last.err, ScanFailure)
        /\ last.fault = "iter" =>
              last.err.fmt = "rows interation List" /\ Is(last.err, IterFailure)

\* a middle row fails to decode: one decoded before it, one is left after it
C12_Witness ==
    /\ last.op = "List" /\ last.fault = "scan"
    /\ page.at > 1 /\ page.at < Cardinality(Window)
    /\ last.err # Nil

\* the cursor fails after every row of the window decoded
C12_WitnessIter ==
    /\ last.op = "List" /\ last.fault = "iter"
    /\ page.at >= 2 /\ page.at = Cardinality(Window)
    /\ last.err # Nil

\* the first row, and the last one, fails to decode
C12_WitnessFirst == last.op = "List" /\ last.fault = "scan" /\ page.at = 1
C12_WitnessLast ==
    last.op = "List" /\ last.fault = "scan" /\ page.at = Cardinality(Window) /\ page.at > 1

\* C13: Count returns (n, nil) exactly when the query succeeds and n > 0
\* users are stored, (0, ErrNoUsers) exactly when it succeeds and none is
\* stored, and (0, "failed query Count" wrapping the cause) when the query
\* or the decoding fails; it never returns (0, nil).
C13_CountClassifies ==
    last.op = "Count" =>
        /\ (last.err = Nil /\ last.id = Cardinality(before))
              <=> (last.fault = "none" /\ Cardinality(before) > 0)
        /\ (last.err = ErrNoUsers /\ last.id = 0)
              <=> (last.fault = "none" /\ Cardinality(before) = 0)
        /\ last.fault = "conn" =>
              /\ last.id = 0 /\ last.err.fmt = "failed query Count"
              /\ Is(last.err, ConnLost)
        /\ last.fault = "scan" =>
              /\ last.id = 0 /\ last.err.fmt = "failed query Count"
              /\ Is(last.err, ScanFailure)
        /\ ~(last.id = 0 /\ last.err = Nil)

C13_Witness == last.op = "Count" /\ last.err = Nil /\ last.id >= 2
C13_WitnessNoUsers == last.op = "Count" /\ last.err = ErrNoUsers /\ before = {}
C13_WitnessFailure == last.op = "Count" /\ last.fault = "scan" /\ before # {}

\* the calls that take, or carry, the identifier of the user they are about
IdAvailable == last.op \in {"GetByID", "Update", "Delete"}

\* a log record at error severity with the cause of the failure the last call
\* returned (where it has one) and the identifier (where the call has one)
ErrorRecord(rec) ==
    /\ rec.level = "error"
    /\ last.err.cause # "" => Message(rec.error) = last.err.cause
    /\ IdAvailable => rec.user_id = last.arg.id

\* C14: every failure a repository operation returns is preceded, within the
\* same call, by at least one log record at error severity that carries the
\* cause and, where the call has one, the identifier of the entity; the
\* conflict outcome of Create and the not-found outcome of GetByID included.
C14_FailuresLogged ==
    last.err # Nil => \E i \in DOMAIN log : ErrorRecord(log[i])

\* the two outcomes that return an error with no record at error severity
C14_Unlogged ==
    \/ last.op = "Create" /\ last.err = ErrUserAlreadyExists
    \/ last.op = "GetByID" /\ last.fault = "none" /\ NotFoundForId(last.err)

\* every other failure has its record at error severity
C14_OtherFailuresLogged ==
    (last.err # Nil /\ ~C14_Unlogged) => \E i \in DOMAIN log : ErrorRecord(log[i])

C16_NoPanic == panicked = ""

\* C17: in every reachable state no two stored users share an email and no
\* two share a username; an Update that would set a user's email or username
\* to one a different user holds is rejected with an error, not applied.
C17_UniqueEmailUsername ==
    /\ \A r1, r2 \in users :
          r1 # r2 => (r1.email # r2.email /\ r1.username # r2.username)
    /\ (last.op = "Update" /\ UpdateCollides) =>
          (last.err # Nil /\ users = before)

\* an Update of a stored user, reaching the store, to the email or the
\* username of the other stored user
C17_Witness ==
    /\ last.op = "Update" /\ Ran /\ Held # {} /\ UpdateCollides
    /\ Cardinality(users) = 2
    /\ last.err # Nil

\* every concurrent Create has returned
AllDone == \A p \in Procs : race[p].pc = "done"

\* the statement of every concurrent Create reached the store
AllRan == \A p \in Procs : race[p].fault = "none"

\* the concurrent Creates that returned an identifier and a nil error
Winners == {p \in Procs : race[p].err = Nil /\ race[p].id > 0}

\* the stored users that hold the email the concurrent Creates passed
WithRaceEmail == {r \in users : r.email = RaceEmail}

\* the usernames the concurrent Creates passed are held by no user stored
\* when they were called and differ from one another
FreshUsernames ==
    /\ \A p \in Procs : \A r \in before : r.username # race[p].arg.username
    /\ \A p, q \in Procs :
          p # q => race[p].arg.username # race[q].arg.username

C18_WitnessLoserFirst ==
    \E p, q \in Procs :
        /\ race[p].pc = "done" /\ race[p].err = ErrUserAlreadyExists
        /\ race[q].pc = "sent" /\ race[q].scan = Nil

\* Connect has returned to the entry point
Connected == main.made # "" /\ main.pc \in {"returned", "exited"}

\* C19: Connect fails fast: it returns a non-nil DB exactly when the pool
\* was constructed and the liveness probe succeeded; when the construction
\* or the probe fails it returns a nil DB and an error wrapping the cause,
\* after a single attempt, and the entry point then terminates having
\* constructed no repository.
C19_ConnectFailsFast ==
    Connected =>
        /\ main.db <=> (main.made = "ok" /\ main.probe = "ok")
        /\ main.db <=> main.err = Nil
        /\ main.made = "fail" =>
              /\ main.err.fmt = "pgxpool.NewWithConfig"
              /\ Is(main.err, PoolRefused)
              /\ main.pings = 0
        /\ main.probe = "fail" =>
              main.err.fmt = "ping db" /\ Is(main.err, PingFailure)
        /\ main.built = 1 /\ main.pings <= 1
        /\ (main.pc = "exited" /\ ~main.db) => main.repos = 0

\* the probe failed and the entry point has terminated
C19_Witness ==
    /\ main.pc = "exited" /\ main.probe = "fail"
    /\ ~main.db /\ main.err # Nil
    /\ main.port # main.poolPort

\* the construction failed; both steps succeeded
C19_WitnessConstruction == main.pc = "exited" /\ main.made = "fail" /\ main.err # Nil
C19_WitnessConnected == main.pc = "exited" /\ main.db

\* C20: the pool is opened once at startup and closed once at shutdown: in
\* every run of the entry point in which Connect succeeds, the pool is closed
\* exactly once before the process exits and is never opened again.
C20_PoolClosedOnce ==
    (main.pc = "exited" /\ main.db) =>
        /\ main.built = 1
        /\ main.closes = 1
        /\ main.pool = "closed"

\* the pool is opened at most once in a run
C20_OpenedOnce == main.built <= 1

\* C21: GetByID, List and Count leave the store unchanged on every path: the
\* stored users and all their fields are the same before and after the
\* call, whether the call succeeds or fails.
C21_ReadsKeepStore ==
    last.op \in {"GetByID", "List", "Count"} => users = before

\* a read of a table that holds users, failing after rows were handed out
C21_Witness ==
    /\ last.op = "List" /\ last.fault = "iter" /\ page.at >= 1
    /\ last.err # Nil
    /\ users # {}

\* a GetByID that returned its user; a Count that counted users
C21_WitnessGetByID == last.op = "GetByID" /\ last.user # {}
C21_WitnessCount == last.op = "Count" /\ last.id >= 1

\* C22: a mutating operation that returns an error leaves the store
\* unchanged: after a Create returning ErrUserAlreadyExists or ErrDB, an
\* Update returning not-found or "failed query Update", or a Delete returning
\* not-found or "failed delete user", the stored users and all their fields
\* are those before the call.
C22_FailedMutationKeepsStore ==
    (last.op \in {"Create", "Update", "Delete"} /\ last.err # Nil)
        => users = before

\* the Update whose statement ran and whose returned row failed to decode
C22_UpdateDecodeFailed ==
    /\ last.op = "Update" /\ last.fault = "scan"
    /\ last.err.fmt = "failed query Update"
    /\ users # before

\* every other mutating call that returns an error leaves the store as it was
C22_UnlessDecodeFailed ==
    (last.op \in {"Create", "Update", "Delete"} /\ last.err # Nil
                                                 /\ last.fault # "scan")
        => users = before

\* C23: result and error are mutually exclusive in every operation: GetByID
\* and Update return a non-nil user exactly when the error is nil; Create
\* and Count return 0 whenever the error is non-nil and a value > 0 whenever
\* it is nil; List returns the nil sequence whenever the error is non-nil.
C23_ResultOrError ==
    /\ last.op \in {"GetByID", "Update"} =>
          (last.user # {} <=> last.err = Nil)
    /\ last.op \in {"Create", "Count"} =>
          /\ last.err # Nil => last.id = 0
          /\ last.err = Nil => last.id > 0
    /\ last.op = "List" =>
          (last.err # Nil => listed = <<>>)

\* an Update of a stored user that failed: no user beside the error
C23_Witness ==
    /\ last.op = "Update" /\ Held # {} /\ last.err # Nil
    /\ last.user = {}

\* the other operations, failing and succeeding
C23_WitnessCreate == last.op = "Create" /\ last.err # Nil /\ seq >= 1
C23_WitnessCount == last.op = "Count" /\ last.err = Nil
C23_WitnessList ==
    last.op = "List" /\ last.fault = "scan" /\ Cardinality(before) = 2
C23_WitnessGetByID == last.op = "GetByID" /\ last.err = Nil

\* C24, as stated: Count and List agree on the same store state: when
\* Count returns (n, nil), the List with limit n and offset 0 that follows
\* it returns exactly n users and one with offset n returns none; when Count
\* returns ErrNoUsers, the List that follows it returns, with any limit and
\* offset, the empty sequence and a nil error.
C24_AsStated ==
    (last.op = "List" /\ last.fault = "none" /\ counted # NoCount) =>
        /\ (counted > 0 /\ page.limit = counted /\ page.offset = 0)
              => Len(listed) = counted /\ last.err = Nil
        /\ (counted > 0 /\ page.offset = counted) => listed = <<>>
        /\ counted = 0 => listed = <<>> /\ last.err = Nil

\* C24, amended: the same for every limit >= 0 and offset >= 0, the List
\* returning a nil error in each case; with a negative limit or offset the
\* List returns the nil sequence and the error of the store, on an empty
\* store as on any other.
C24_CountListAgree ==
    (last.op = "List" /\ last.fault = "none" /\ counted # NoCount) =>
        IF page.limit >= 0 /\ page.offset >= 0
        THEN /\ last.err = Nil
             /\ (counted > 0 /\ page.limit = counted /\ page.offset = 0)
                   => Len(listed) = counted
             /\ (counted > 0 /\ page.offset = counted) => listed = <<>>
             /\ counted = 0 => listed = <<>>
        ELSE /\ listed = <<>>
             /\ last.err.fmt = "rows interation List"
             /\ Is(last.err, InvalidOffset) \/ Is(last.err, InvalidLimit)

\* a List of limit n, offset 0 after a Count that returned n >= 2
C24_Witness ==
    /\ last.op = "List" /\ last.fault = "none"
    /\ counted >= 2 /\ page.limit = counted /\ page.offset = 0
    /\ Len(listed) = counted

\* offset n after a Count that returned n; a List after ErrNoUsers, with a
\* limit and offset >= 0 and with a negative limit
C24_WitnessOffset ==
    /\ last.op = "List" /\ last.fault = "none"
    /\ counted >= 1 /\ page.offset = counted /\ page.limit >= 1
C24_WitnessNoUsers ==
    /\ last.op = "List" /\ last.fault = "none"
    /\ counted = 0 /\ page.limit >= 1 /\ page.offset >= 0
C24_WitnessNegative ==
    /\ last.op = "List" /\ last.fault = "none"
    /\ counted = 0 /\ page.limit < 0 /\ last.err # Nil

\* C25: Connect never returns an error while leaving an open pool behind:
\* once it has returned an error, no pool it constructed is open; where the
\* pool was constructed and the liveness probe failed, the pool was closed
\* before Connect returned.
C25_NoOpenPoolOnError ==
    (Connected /\ main.err # Nil) =>
        /\ main.pool # "open"
        /\ main.probe = "fail" => main.pool = "closed" /\ main.closes = 1

\* the construction failing leaves no pool behind
C25_NoPoolWhenRefused ==
    (Connected /\ main.made = "fail") => main.pool = "none" /\ main.closes = 0

\* Connect has returned the probe's error and the pool it built is open
C25_OpenPoolLeft ==
    /\ Connected /\ main.made = "ok" /\ main.probe = "fail"
    /\ main.err # Nil /\ main.pool = "open" /\ main.closes = 0

====
